---- MODULE Spec2Model ----
(***************************************************************************)
(* State-machine model of the terminal forwarder's session manager         *)
(* (src/terminal-forwarder/src/main.rs): the TerminalManager registry, its  *)
(* five operations, the per-session reader thread and the PTY/child        *)
(* environment they talk to.                                               *)
(***************************************************************************)
EXTENDS Integers, Sequences, FiniteSets, TLC

\* ------------------------------------------------------------------ bounds
\* Number of session ids Uuid::new_v4 hands out in a run.
MaxSessions == 2
\* Number of write/resize/read/kill calls, plus create calls that fail or
\* carry an empty command, started in a run (successful creates are bounded by
\* MaxSessions).
MaxCalls == 2
\* Number of steps the child processes take in a run: writing a byte to the
\* PTY, ceasing to read their input, or exiting.
MaxChildSteps == 2
\* Number of session ids the window tracker's callers use in a run.
MaxTracked == 3
\* let delays = [0.5, 1.0, 2.0, 3.0]: attempts of register_window to find the
\* window of a terminal without explicit window/tab info.
NumDelays == 4
\* Number of process ids in a process table given to the ancestor walk.
MaxPids == 3
\* Largest max_depth given to find_terminal_ancestor.
MaxDepth == 3
\* Largest number of bytes one reader.read(&mut buf) returns: buf is 4096
\* bytes in the source, more than the children write in a run.
ChunkSize == MaxChildSteps

\* ------------------------------------------------------------- value sets
\* Concurrent API callers: the slots in which inbound requests are served.
\* A request takes the first free slot, so "c2" runs only calls that overlap
\* a call of "c1".
Callers == {"c1", "c2"}
\* Ids generated by create_session.
Ids == 1..MaxSessions
\* An id no create ever generated (a caller's stale or mistyped id).
UnknownId == MaxSessions + 1
\* Payloads of write.
Payloads == {<<7, 8>>}
\* Terminal sizes of resize, as <<cols, rows>>.
Dims == {<<100, 43>>}
\* cols/rows of a CreateRequest: cols given, rows absent.
\* An Option<u16> is <<>> (None) or <<v>> (Some(v)).
OptDims == {<< <<132>>, <<>> >>}
\* The command of a CreateRequest: a Vec<String>, which may be empty.
Commands == {<<>>, <<"sh">>}
\* Steps of create_session that can fail ("none": all succeed).
FailStages == {"none", "openpty", "spawn", "clone_reader", "take_writer"}

Min(a, b) == IF a < b THEN a ELSE b

VARIABLES
  sessions,   \* keys of TerminalManager.sessions (the HashMap)
  regLock,    \* holder of the sessions Mutex: a caller, or "free"
  output,     \* [id -> bytes] contents of Session.output (the shared Vec<u8>)
  outLock,    \* [id -> holder] of the output TokioMutex: "reader" or "free"
  ptySize,    \* [id -> <<cols, rows>>] size of the session's PTY
  ptyIn,      \* [id -> bytes] bytes delivered to the PTY master by the writer
  ptyOut,     \* [id -> bytes] bytes the child produced, not yet read from the master
  produced,   \* [id -> bytes] everything the child produced, in production order
  child,      \* [id -> "none" | "running" | "stalled" | "exited"]
  reader,     \* [id -> "none" | "reading" | "appending" | "done"]
  buf,        \* [id -> bytes] the reader thread's buf[..n]
  pc,         \* [caller -> position in the operation it runs]
  op,         \* [caller -> operation]
  arg,        \* [caller -> arguments of the operation]
  last,       \* the response sent most recently: operation, id, result, status
              \* (and history: whether the id's reader thread had terminated)
  nextId,     \* next id Uuid::new_v4 yields
  calls,      \* number of calls started so far
  returned,   \* history: ids returned by a successful create
  killed,     \* history: ids for which a kill completed after create returned them
  afterKill,  \* history: [caller -> the running call started after kill(id) completed]
  appended,   \* history: [id -> bytes the reader thread appended so far]
  delivered,  \* history: [id -> concatenation of successful read results]
  \* WindowTracker (src/tauri/src-tauri/src/window_tracker.rs)
  sessionWindowMap, \* keys of WindowTracker.session_window_map
  upd,        \* the update_from_sessions call: position, argument, progress
  reg,        \* the register_window call: position, session id, delays left
  unreg,      \* history: the id given to the latest unregister_window (0: none)
  \* ProcessTracker (src/tauri/src-tauri/src/process_tracker.rs)
  walk        \* a find_terminal_ancestor call: the process table it sees, its
              \* arguments, its locals, its result

managerVars == <<sessions, regLock, output, outLock, ptySize, ptyIn, ptyOut,
                 produced, child, reader, buf, pc, op, arg, last, nextId, calls,
                 returned, killed, afterKill, appended, delivered>>

trackerVars == <<sessionWindowMap, upd, reg, unreg>>

toolVars == <<trackerVars, walk>>

vars == <<managerVars, toolVars>>

ptyVars == <<ptySize, ptyIn, ptyOut, produced, child>>
readerVars == <<reader, buf, appended>>
histVars == <<returned, killed>>

\* ------------------------------------------------------------- results
\* Result<_, String>: msg is "ok" or the error string's prefix.
Ok(id, data) == [msg |-> "ok", id |-> id, data |-> data]
Err(msg) == [msg |-> msg, id |-> 0, data |-> <<>>]
Pending == [msg |-> "pending", id |-> 0, data |-> <<>>]
Panicked == [msg |-> "panicked", id |-> 0, data |-> <<>>]
\* sent: bytes of data write_all has delivered so far; at: history, the
\* number of bytes the PTY had received when write found the session.
NoArg == [id |-> 0, data |-> <<>>, dims |-> <<0, 0>>, opt |-> << <<>>, <<>> >>,
          cmd |-> <<>>, sent |-> 0, at |-> 0]

NotFoundMsg == "session not found"
SpawnMsgs == {"openpty failed", "spawn failed", "clone reader failed", "take writer failed"}
IoMsgs == {"write failed", "flush failed", "resize failed"}

\* ---------------------------------------------------------------- Init
\* TerminalManager::new(): no session.
InitManager ==
  /\ sessions = {}
  /\ regLock = "free"
  /\ output = [i \in Ids |-> <<>>]
  /\ outLock = [i \in Ids |-> "free"]
  /\ ptySize = [i \in Ids |-> <<0, 0>>]
  /\ ptyIn = [i \in Ids |-> <<>>]
  /\ ptyOut = [i \in Ids |-> <<>>]
  /\ produced = [i \in Ids |-> <<>>]
  /\ child = [i \in Ids |-> "none"]
  /\ reader = [i \in Ids |-> "none"]
  /\ buf = [i \in Ids |-> <<>>]
  /\ pc = [c \in Callers |-> "idle"]
  /\ op = [c \in Callers |-> "none"]
  /\ arg = [c \in Callers |-> NoArg]
  /\ last = [op |-> "none", id |-> 0, ret |-> Pending, afterKill |-> FALSE,
             status |-> 0, readerDone |-> FALSE]
  /\ nextId = 1
  /\ calls = 0
  /\ returned = {}
  /\ killed = {}
  /\ afterKill = [c \in Callers |-> FALSE]
  /\ appended = [i \in Ids |-> <<>>]
  /\ delivered = [i \in Ids |-> <<>>]

\* Session ids known to the window tracker's callers.
TrackedIds == 1..MaxTracked

\* No update_from_sessions call is running.  sessions: the ids of the given
\* slice; todo: those the second loop has not visited; cur: the one it found
\* a window for; pruned: history, the ids whose entries the call removed;
\* disturbed: history, a register_window call inserted an entry since the
\* call started.
NoUpdate == [pc |-> "idle", sessions |-> {}, todo |-> {}, cur |-> 0,
             pruned |-> {}, disturbed |-> FALSE]

\* No register_window call is running.
NoRegister == [pc |-> "idle", id |-> 0, left |-> 0]

\* WindowTracker::new(): an empty map.
InitTracker ==
  /\ sessionWindowMap = {}
  /\ upd = NoUpdate
  /\ reg = NoRegister
  /\ unreg = 0

\* Process ids, and the pieces process names are made of.
Pids == 1..MaxPids
\* Process names: a shell, and a terminal whose name has a listed name inside
\* it ("lxterminal" contains "xterm").
Names == {<<"sh">>, <<"l", "xterm", "inal">>}
\* let terminal_processes = vec!["Terminal", .., "xterm", ..]
terminal_processes == {<<"xterm">>, <<"kitty">>}

\* No find_terminal_ancestor call.
NoWalk == [parent |-> <<>>, info |-> <<>>, pid |-> 0, max_depth |-> 0,
           current_pid |-> 0, depth |-> 0, lookups |-> 0, result |-> <<>>,
           pc |-> "none"]

Init == InitManager /\ InitTracker /\ walk = NoWalk

\* ------------------------------------------------- helpers (from the code)
\* Option::unwrap_or
UnwrapOr(o, d) == IF o = <<>> THEN d ELSE o[1]

\* PtySize { rows: rows.unwrap_or(24), cols: cols.unwrap_or(80), .. }
InitialSize(cols, rows) == <<UnwrapOr(cols, 80), UnwrapOr(rows, 24)>>

\* &command[0]: indexing an empty Vec panics (index out of bounds).
Command0Panics(command) == Len(command) = 0

\* The status line of the response a handler's return value becomes.  The
\* handlers return Result<_, String>: Ok(()), Ok(Vec<u8>), Ok(Json(..)) and
\* Err(String) are all turned into a response by IntoResponse, none of which
\* sets a status, so each is 200 OK.  A handler that panics sends no
\* response (0).
ResponseStatus(r) == IF r.msg = "panicked" THEN 0 ELSE 200

\* The error create_session returns when the given step fails (the `?`s).
CreateError(stage) ==
  CASE stage = "openpty" -> Err("openpty failed")
    [] stage = "spawn" -> Err("spawn failed")
    [] stage = "clone_reader" -> Err("clone reader failed")
    [] OTHER -> Err("take writer failed")

\* Variant: the session is built without spawning the reader thread.
ReaderStartedNever(stage) == FALSE

\* Variant: the reader thread is spawned before take_writer is tried.
ReaderStartedBeforeTakeWriter(stage) == stage \in {"none", "take_writer"}

\* std::thread::spawn is reached only after all four fallible steps succeeded.
ReaderStartedAt(stage) == stage = "none"

\* Variant: the session is built but never stored.
InsertDropped(s, id) == s

\* sessions.insert(id, session)
Insert(s, id) == s \cup {id}

\* sessions.get(id) / get_mut(id) is Some
Lookup(s, id) == id \in s

\* Variant: a missing session is reported with the I/O error's text.
LookupErrorAsIo == Err("resize failed")

\* .ok_or_else(|| "session not found".to_string())?
LookupError == Err(NotFoundMsg)

\* Variant: kill empties the map (sessions.clear()).
RemoveAll(s, id) == {}

\* Variant: kill leaves the entry in the map.
RemoveNothing(s, id) == s

\* sessions.remove(id)
Remove(s, id) == s \ {id}

\* Variant: kill reports a missing session.
KillResultStrict(s, id) == IF id \in s THEN Ok(0, <<>>) ELSE Err(NotFoundMsg)

\* kill's return value: Ok(()) whatever remove returned.
KillResult(s, id) == Ok(0, <<>>)

\* Variant: output.split_off(output.len()), nothing is taken.
SplitOffLen(v) == [data |-> <<>>, rest |-> v]

\* Variant: output.clone(), the buffer keeps its bytes.
SplitOffClone(v) == [data |-> v, rest |-> v]

\* output.split_off(0): the returned Vec and what stays in the buffer.
SplitOff0(v) == [data |-> v, rest |-> <<>>]

\* Variant: an empty buffer is reported as an error.
ReadResultNonEmpty(data) == IF data = <<>> THEN Err("no output") ELSE Ok(0, data)

\* read's return value: Ok(data)
ReadResult(data) == Ok(0, data)

\* Variant: the chunk is put in front of the buffered bytes.
ExtendAtFront(v, b) == b \o v

\* out.extend_from_slice(&buf[..n])
ExtendFromSlice(v, b) == v \o b

\* Variant: the guard `out` is bound outside the loop and lives across the
\* next reader.read.
OutGuardKept == "reader"

\* Line 83: the guard `out` goes out of scope at the end of the Ok(n) arm, so
\* the buffer lock is free when the loop returns to reader.read.
OutGuardDropped == "free"

\* Variant: writer.write(data), which returns after any non-empty part.
WriteOnce(d, sent) == 1..(Len(d) - sent)

\* writer.write_all(data): the numbers of bytes whose delivery ends the call
\* with Ok, when `sent` bytes went out before: only all the remaining ones.
WriteAll(d, sent) == {Len(d) - sent}

\* Variant: the two dimensions are passed in each other's place.
PtySizeSwapped(cols, rows) == <<rows, cols>>

\* PtySize { cols, rows, pixel_width: 0, pixel_height: 0 } given to
\* master.resize, as <<cols, rows>>.
PtySize(cols, rows) == <<cols, rows>>

\* ----------------------------------------------------------- API callers
\* A caller starts one of the five manager operations.  Ids are opaque random
\* tokens: a caller passes one a create returned, or one that names no session.
KnownIds == returned \cup {UnknownId}

\* Creates that have not generated their id yet.
CreatesInFlight == Cardinality({c \in Callers : pc[c] = "create"})

Begin(c, o, a, entry) ==
  /\ UNCHANGED toolVars
  /\ pc[c] = "idle"
  /\ c = "c2" => pc["c1"] # "idle"
  /\ IF o = "create" /\ a.cmd # <<>>
       THEN calls' = calls
       ELSE calls < MaxCalls /\ calls' = calls + 1
  /\ pc' = [pc EXCEPT ![c] = entry]
  /\ op' = [op EXCEPT ![c] = o]
  /\ arg' = [arg EXCEPT ![c] = a]
  /\ afterKill' = [afterKill EXCEPT ![c] = a.id \in killed]
  /\ UNCHANGED <<sessions, regLock, output, outLock, ptyVars, readerVars,
                 last, nextId, histVars, delivered>>

CallCreate(c) ==
  /\ nextId + CreatesInFlight <= MaxSessions
  /\ \E o \in OptDims, cmd \in Commands :
       Begin(c, "create", [NoArg EXCEPT !.opt = o, !.cmd = cmd], "create")

CallWrite(c) ==
  \E i \in KnownIds, d \in Payloads :
    Begin(c, "write", [NoArg EXCEPT !.id = i, !.data = d], "w_lock")

CallResize(c) ==
  \E i \in KnownIds, d \in Dims :
    Begin(c, "resize", [NoArg EXCEPT !.id = i, !.dims = d], "rs_lock")

CallRead(c) ==
  \E i \in KnownIds : Begin(c, "read", [NoArg EXCEPT !.id = i], "rd_lock")

CallKill(c) ==
  \E i \in KnownIds : Begin(c, "kill", [NoArg EXCEPT !.id = i], "k_lock")

\* The caller's slot becomes free and the response is recorded.
ReturnCounted(c, r) ==
  /\ pc' = [pc EXCEPT ![c] = "idle"]
  /\ op' = [op EXCEPT ![c] = "none"]
  /\ arg' = [arg EXCEPT ![c] = NoArg]
  /\ afterKill' = [afterKill EXCEPT ![c] = FALSE]
  /\ last' = [op |-> op[c], id |-> arg[c].id, ret |-> r,
              afterKill |-> afterKill[c], status |-> ResponseStatus(r),
              readerDone |-> arg[c].id \in Ids /\ reader[arg[c].id] = "done"]

Return(c, r) == ReturnCounted(c, r) /\ UNCHANGED calls

\* ------------------------------------------------------- create_session
\* Lines 40-87: generate the id, open the PTY, spawn the command, clone the
\* reader, take the writer, start the reader thread.  Nothing here touches the
\* registry or any state another thread can see before the insert.  A failure
\* after the spawn drops the pair and the child handle (the process itself is
\* not tracked further: no id ever names it).
CreatePrepare(c) ==
  /\ UNCHANGED toolVars
  /\ pc[c] = "create"
  /\ ~Command0Panics(arg[c].cmd)
  /\ \E stage \in FailStages :
       /\ IF ReaderStartedAt(stage)
            THEN /\ nextId <= MaxSessions
                 /\ reader' = [reader EXCEPT ![nextId] = "reading"]
                 /\ child' = [child EXCEPT ![nextId] = "running"]
                 /\ ptySize' = [ptySize EXCEPT ![nextId] =
                                  InitialSize(arg[c].opt[1], arg[c].opt[2])]
            ELSE UNCHANGED <<reader, child, ptySize>>
       /\ IF stage = "none"
            THEN /\ nextId <= MaxSessions
                 /\ arg' = [arg EXCEPT ![c].id = nextId]
                 /\ nextId' = nextId + 1
                 /\ pc' = [pc EXCEPT ![c] = "c_insert"]
                 /\ UNCHANGED <<op, last, calls, afterKill>>
            ELSE /\ calls < MaxCalls
                 /\ calls' = calls + 1
                 /\ ReturnCounted(c, CreateError(stage))
                 /\ UNCHANGED nextId
  /\ UNCHANGED <<sessions, regLock, output, outLock, ptyIn, ptyOut, produced,
                 buf, appended, histVars, delivered>>

\* Lines 40-51 with an empty command: openpty fails, or it succeeds and
\* &command[0] panics.  The panic unwinds create_session before anything is
\* spawned or locked (the PTY pair is dropped); the handler's task ends
\* without a response.
CreatePanic(c) ==
  /\ UNCHANGED toolVars
  /\ pc[c] = "create"
  /\ Command0Panics(arg[c].cmd)
  /\ \/ Return(c, CreateError("openpty"))
     \/ Return(c, Panicked)
  /\ UNCHANGED <<sessions, regLock, output, outLock, ptyVars, readerVars,
                 nextId, histVars, delivered>>

\* Lines 95-96: self.sessions.lock().unwrap().insert(id, session); Ok((id, pid))
CreateInsert(c) ==
  /\ UNCHANGED toolVars
  /\ pc[c] = "c_insert"
  /\ regLock = "free"
  /\ sessions' = Insert(sessions, arg[c].id)
  /\ returned' = returned \cup {arg[c].id}
  /\ Return(c, Ok(arg[c].id, <<>>))
  /\ UNCHANGED <<regLock, output, outLock, ptyVars, readerVars, nextId, killed,
                 delivered>>

\* ------------------------------------------------------------------ write
\* Lines 100-101: lock the registry and look the session up.  The guard
\* `sessions` lives until write returns.
WriteLookup(c) ==
  /\ UNCHANGED toolVars
  /\ pc[c] = "w_lock"
  /\ regLock = "free"
  /\ IF Lookup(sessions, arg[c].id)
       THEN /\ regLock' = c
            /\ pc' = [pc EXCEPT ![c] = "w_io"]
            /\ arg' = [arg EXCEPT ![c].at = Len(ptyIn[arg[c].id])]
            /\ UNCHANGED <<op, last, calls, afterKill>>
       ELSE /\ Return(c, LookupError)
            /\ UNCHANGED regLock
  /\ UNCHANGED <<sessions, output, outLock, ptyVars, readerVars, nextId,
                 histVars, delivered>>

\* Lines 102-103: inside write_all, a write to the master delivers some but
\* not all of the remaining bytes and write_all goes on.  It blocks while the
\* PTY's input queue is full, that is, until the child reads its input.
WriteAllStep(c) ==
  /\ UNCHANGED toolVars
  /\ pc[c] = "w_io"
  /\ child[arg[c].id] # "stalled"
  /\ LET i == arg[c].id
         d == arg[c].data
         sent == arg[c].sent
     IN \E k \in 1..(Len(d) - sent - 1) :
          /\ ptyIn' = [ptyIn EXCEPT ![i] = @ \o SubSeq(d, sent + 1, sent + k)]
          /\ arg' = [arg EXCEPT ![c].sent = sent + k]
  /\ UNCHANGED <<sessions, regLock, output, outLock, ptySize, ptyOut, produced,
                 child, readerVars, pc, op, last, nextId, calls, histVars,
                 afterKill, delivered>>

\* Lines 102-110: write_all fails ("write failed") with the bytes delivered so
\* far, or its last write delivers the remaining bytes, and then
\* session.writer.flush() fails ("flush failed") or write returns Ok(()).
\* The guard `sessions` is dropped on return.
WriteIo(c) ==
  /\ UNCHANGED toolVars
  /\ pc[c] = "w_io"
  /\ child[arg[c].id] # "stalled"
  /\ LET i == arg[c].id
         d == arg[c].data
         sent == arg[c].sent
     IN \/ /\ UNCHANGED ptyIn
           /\ Return(c, Err("write failed"))
        \/ \E k \in WriteAll(d, sent) :
             /\ ptyIn' = [ptyIn EXCEPT ![i] = @ \o SubSeq(d, sent + 1, sent + k)]
             /\ \/ Return(c, Err("flush failed"))
                \/ Return(c, Ok(0, <<>>))
  /\ regLock' = "free"
  /\ UNCHANGED <<sessions, output, outLock, ptySize, ptyOut, produced, child,
                 readerVars, nextId, histVars, delivered>>

\* ----------------------------------------------------------------- resize
\* Lines 114-115
ResizeLookup(c) ==
  /\ UNCHANGED toolVars
  /\ pc[c] = "rs_lock"
  /\ regLock = "free"
  /\ IF Lookup(sessions, arg[c].id)
       THEN /\ regLock' = c
            /\ pc' = [pc EXCEPT ![c] = "rs_io"]
            /\ UNCHANGED <<op, arg, last, calls, afterKill>>
       ELSE /\ Return(c, LookupError)
            /\ UNCHANGED regLock
  /\ UNCHANGED <<sessions, output, outLock, ptyVars, readerVars, nextId,
                 histVars, delivered>>

\* Lines 116-127: session.pty_pair.master.resize(PtySize { cols, rows, .. })
ResizeIo(c) ==
  /\ UNCHANGED toolVars
  /\ pc[c] = "rs_io"
  /\ regLock' = "free"
  /\ \/ /\ ptySize' = [ptySize EXCEPT ![arg[c].id] =
                         PtySize(arg[c].dims[1], arg[c].dims[2])]
        /\ Return(c, Ok(0, <<>>))
     \/ /\ UNCHANGED ptySize
        /\ Return(c, Err("resize failed"))
  /\ UNCHANGED <<sessions, output, outLock, ptyIn, ptyOut, produced, child,
                 readerVars, nextId, histVars, delivered>>

\* ------------------------------------------------------------------- read
\* Lines 131-132
ReadLookup(c) ==
  /\ UNCHANGED toolVars
  /\ pc[c] = "rd_lock"
  /\ regLock = "free"
  /\ IF Lookup(sessions, arg[c].id)
       THEN /\ regLock' = c
            /\ pc' = [pc EXCEPT ![c] = "rd_lock_output"]
            /\ UNCHANGED <<op, arg, last, calls, afterKill>>
       ELSE /\ Return(c, LookupError)
            /\ UNCHANGED regLock
  /\ UNCHANGED <<sessions, output, outLock, ptyVars, readerVars, nextId,
                 histVars, delivered>>

\* Lines 133-136: block_on(session.output.lock()) with the registry lock held,
\* output.split_off(0), Ok(data); both guards are dropped on return.  Nothing
\* can touch the buffer between the lock and the split, so they are one step.
ReadDrain(c) ==
  /\ UNCHANGED toolVars
  /\ pc[c] = "rd_lock_output"
  /\ outLock[arg[c].id] = "free"
  /\ LET i == arg[c].id
         r == SplitOff0(output[i])
     IN /\ output' = [output EXCEPT ![i] = r.rest]
        /\ delivered' = [delivered EXCEPT ![i] = @ \o r.data]
        /\ Return(c, ReadResult(r.data))
  /\ regLock' = "free"
  /\ UNCHANGED <<sessions, outLock, ptyVars, readerVars, nextId, histVars>>

\* ------------------------------------------------------------------- kill
\* Lines 139-141: lock, remove (the removed Session is dropped: writer, PTY
\* pair and child handle are released; the child is not signalled), Ok(()).
Kill(c) ==
  /\ UNCHANGED toolVars
  /\ pc[c] = "k_lock"
  /\ regLock = "free"
  /\ sessions' = Remove(sessions, arg[c].id)
  /\ killed' = killed \cup ({arg[c].id} \cap returned)
  /\ Return(c, KillResult(sessions, arg[c].id))
  /\ UNCHANGED <<regLock, output, outLock, ptyVars, readerVars, nextId,
                 returned, delivered>>

\* ---------------------------------------------------------- reader thread
\* Lines 78-81, Ok(n) with n > 0: the blocking read returns up to a chunk and
\* the thread takes the buffer lock (the read itself runs without the lock; a
\* read that returned while a caller drains commutes with the drain).
ReaderRead(i) ==
  /\ UNCHANGED toolVars
  /\ reader[i] = "reading"
  /\ ptyOut[i] # <<>>
  /\ outLock[i] = "free"
  /\ \E n \in 1..Min(ChunkSize, Len(ptyOut[i])) :
       /\ buf' = [buf EXCEPT ![i] = SubSeq(ptyOut[i], 1, n)]
       /\ ptyOut' = [ptyOut EXCEPT ![i] = SubSeq(@, n + 1, Len(@))]
  /\ outLock' = [outLock EXCEPT ![i] = "reader"]
  /\ reader' = [reader EXCEPT ![i] = "appending"]
  /\ UNCHANGED <<sessions, regLock, output, ptySize, ptyIn, produced,
                 child, pc, op, arg, last, nextId, calls, histVars, afterKill,
                 appended, delivered>>

\* Line 82-83: out.extend_from_slice(&buf[..n]); the guard is dropped.
ReaderAppend(i) ==
  /\ UNCHANGED toolVars
  /\ reader[i] = "appending"
  /\ output' = [output EXCEPT ![i] = ExtendFromSlice(@, buf[i])]
  /\ appended' = [appended EXCEPT ![i] = @ \o buf[i]]
  /\ buf' = [buf EXCEPT ![i] = <<>>]
  /\ outLock' = [outLock EXCEPT ![i] = OutGuardDropped]
  /\ reader' = [reader EXCEPT ![i] = "reading"]
  /\ UNCHANGED <<sessions, regLock, ptyVars, pc, op, arg, last, nextId, calls,
                 histVars, afterKill, delivered>>

\* Lines 79 and 84: Ok(0) or Err(_) => break.  The master reports end of
\* stream or an error once the child side is closed and nothing is pending.
\* The thread reads through its own clone of the master (try_clone_reader,
\* lines 64-67), which it alone owns: dropping the Session in kill closes the
\* pair and the writer but not this clone, and does not signal the child.
ReaderStop(i) ==
  /\ UNCHANGED toolVars
  /\ reader[i] = "reading"
  /\ child[i] = "exited"
  /\ ptyOut[i] = <<>>
  /\ reader' = [reader EXCEPT ![i] = "done"]
  /\ UNCHANGED <<sessions, regLock, output, outLock, ptyVars, buf, pc, op, arg,
                 last, nextId, calls, histVars, afterKill, appended, delivered>>

\* ------------------------------------------------ environment: the child
RECURSIVE SumLen(_, _)
SumLen(f, S) ==
  IF S = {} THEN 0
  ELSE LET i == CHOOSE x \in S : TRUE IN Len(f[i]) + SumLen(f, S \ {i})

\* Steps the children have taken so far.
ChildSteps ==
  SumLen(produced, Ids)
    + Cardinality({i \in Ids : child[i] \in {"stalled", "exited"}})

\* The spawned command writes its next byte to the PTY.
ChildProduce(i) ==
  /\ UNCHANGED toolVars
  /\ child[i] = "running"
  /\ ChildSteps < MaxChildSteps
  /\ LET b == Len(produced[i]) + 1
     IN /\ produced' = [produced EXCEPT ![i] = Append(@, b)]
        /\ ptyOut' = [ptyOut EXCEPT ![i] = Append(@, b)]
  /\ UNCHANGED <<sessions, regLock, output, outLock, ptySize, ptyIn, child,
                 readerVars, pc, op, arg, last, nextId, calls, histVars,
                 afterKill, delivered>>

\* The spawned command exits.
ChildExit(i) ==
  /\ UNCHANGED toolVars
  /\ child[i] = "running"
  /\ ChildSteps < MaxChildSteps
  /\ child' = [child EXCEPT ![i] = "exited"]
  /\ UNCHANGED <<sessions, regLock, output, outLock, ptySize, ptyIn, ptyOut,
                 produced, readerVars, pc, op, arg, last, nextId, calls,
                 histVars, afterKill, delivered>>

\* The spawned command stops reading its input and writing output (it is
\* stopped, or busy elsewhere) with the PTY's input queue full; it stays so
\* for the rest of the run.
ChildStall(i) ==
  /\ UNCHANGED toolVars
  /\ child[i] = "running"
  /\ ChildSteps < MaxChildSteps
  /\ child' = [child EXCEPT ![i] = "stalled"]
  /\ UNCHANGED <<sessions, regLock, output, outLock, ptySize, ptyIn, ptyOut,
                 produced, readerVars, pc, op, arg, last, nextId, calls,
                 histVars, afterKill, delivered>>

\* ------------------------------------------------------------------- Next
Next ==
  \/ \E c \in Callers :
       \/ CallCreate(c) \/ CallWrite(c) \/ CallResize(c) \/ CallRead(c)
       \/ CallKill(c)
       \/ CreatePrepare(c) \/ CreatePanic(c) \/ CreateInsert(c)
       \/ WriteLookup(c) \/ WriteAllStep(c) \/ WriteIo(c)
       \/ ResizeLookup(c) \/ ResizeIo(c)
       \/ ReadLookup(c) \/ ReadDrain(c)
       \/ Kill(c)
  \/ \E i \in Ids :
       \/ ReaderRead(i) \/ ReaderAppend(i) \/ ReaderStop(i)
       \/ ChildProduce(i) \/ ChildExit(i) \/ ChildStall(i)

Spec == Init /\ [][Next]_vars

\* ------------------------------------------------------------- scheduling
\* A step of the operation caller c is running.  Each request is served by
\* its own task on the runtime's worker threads, and the reader is an OS
\* thread: a thread that can take its next step eventually takes it.  Nothing
\* obliges a client to send a request, or a child to write, read or exit.
OpStep(c) ==
  \/ CreatePrepare(c) \/ CreatePanic(c) \/ CreateInsert(c)
  \/ WriteLookup(c) \/ WriteAllStep(c) \/ WriteIo(c)
  \/ ResizeLookup(c) \/ ResizeIo(c)
  \/ ReadLookup(c) \/ ReadDrain(c)
  \/ Kill(c)

ReaderStep(i) == ReaderRead(i) \/ ReaderAppend(i) \/ ReaderStop(i)

FairSpec ==
  /\ Spec
  /\ \A c \in Callers : WF_vars(OpStep(c))
  /\ \A i \in Ids : WF_vars(ReaderStep(i))

\* ---------------------------------------------------------- WindowTracker
\* What find_window / find_window_for_session report for a session: no
\* window (<<>>) or a window.  The platform's window enumeration is outside
\* the tracker; it is taken as the capability find_window(criteria) ->
\* optional handle.
FindWindow == {<<>>, <<"window">>}

\* Variant: the test is inverted, the listed sessions' entries are removed.
PruneListed(map, session_ids) == map \ session_ids

\* Lines 123-131: for every tracked key, remove it if session_ids does not
\* contain it.
Prune(map, session_ids) == {k \in map : k \in session_ids}

\* update_from_sessions is called with a slice of sessions (lines 117-120:
\* session_ids is the set of their ids).
UpdateCall ==
  /\ upd.pc \in {"idle", "returned"}
  /\ \E ids \in SUBSET TrackedIds :
       upd' = [NoUpdate EXCEPT !.pc = "prune", !.sessions = ids, !.todo = ids]
  /\ UNCHANGED <<managerVars, sessionWindowMap, reg, unreg, walk>>

\* Lines 123-132: under the write lock, drop the entries of sessions that are
\* not in the slice.
UpdatePrune ==
  /\ upd.pc = "prune"
  /\ sessionWindowMap' = Prune(sessionWindowMap, upd.sessions)
  /\ upd' = [upd EXCEPT !.pc = "scan",
                        !.pruned = sessionWindowMap \ sessionWindowMap']
  /\ UNCHANGED <<managerVars, reg, unreg, walk>>

\* Lines 135-138 and 144: the next session of the slice; if it has no entry
\* (window_info, under the read lock), find_window_for_session is asked.
UpdateScan ==
  /\ upd.pc = "scan"
  /\ \E s \in upd.todo :
       IF s \in sessionWindowMap
         THEN upd' = [upd EXCEPT !.todo = @ \ {s}]
         ELSE \E w \in FindWindow :
                upd' = IF w = <<>>
                         THEN [upd EXCEPT !.todo = @ \ {s}]
                         ELSE [upd EXCEPT !.todo = @ \ {s}, !.cur = s,
                                          !.pc = "insert"]
  /\ UNCHANGED <<managerVars, sessionWindowMap, reg, unreg, walk>>

\* Lines 139-141: insert the window found, under the write lock.
UpdateInsert ==
  /\ upd.pc = "insert"
  /\ sessionWindowMap' = sessionWindowMap \cup {upd.cur}
  /\ upd' = [upd EXCEPT !.pc = "scan", !.cur = 0]
  /\ UNCHANGED <<managerVars, reg, unreg, walk>>

\* Line 147: the loop is over, update_from_sessions returns.
UpdateReturn ==
  /\ upd.pc = "scan"
  /\ upd.todo = {}
  /\ upd' = [upd EXCEPT !.pc = "returned"]
  /\ UNCHANGED <<managerVars, sessionWindowMap, reg, unreg, walk>>

\* Lines 41-54 and 62-63: register_window starts; a terminal with explicit
\* window/tab info gets one attempt, any other one attempt per delay.
RegisterCall ==
  /\ reg.pc = "idle"
  /\ \E id \in TrackedIds, n \in {1, NumDelays} :
       reg' = [pc |-> "find", id |-> id, left |-> n]
  /\ UNCHANGED <<managerVars, sessionWindowMap, upd, unreg, walk>>

\* Lines 53-59 and 64-74: after the sleep, find_window; a window found is
\* inserted next, otherwise the next delay is tried or the call gives up.
RegisterFind ==
  /\ reg.pc = "find"
  /\ \E w \in FindWindow :
       reg' = IF w # <<>> THEN [reg EXCEPT !.pc = "insert"]
              ELSE IF reg.left > 1 THEN [reg EXCEPT !.left = @ - 1]
              ELSE NoRegister
  /\ UNCHANGED <<managerVars, sessionWindowMap, upd, unreg, walk>>

\* Lines 56 and 67: session_window_map.write().await.insert(session_id, ..)
RegisterInsert ==
  /\ reg.pc = "insert"
  /\ sessionWindowMap' = sessionWindowMap \cup {reg.id}
  /\ reg' = NoRegister
  /\ upd' = IF upd.pc = "idle" THEN upd ELSE [upd EXCEPT !.disturbed = TRUE]
  /\ UNCHANGED <<managerVars, unreg, walk>>

\* Variant: every entry is dropped (clear()).
RemoveEntries(map, session_id) == {}

\* Lines 78-82: session_window_map.write().await.remove(session_id)
RemoveEntry(map, session_id) == map \ {session_id}

UnregisterWindow ==
  /\ \E id \in TrackedIds :
       /\ sessionWindowMap' = RemoveEntry(sessionWindowMap, id)
       /\ unreg' = id
  /\ UNCHANGED <<managerVars, upd, reg, walk>>

WindowNext ==
  \/ UpdateCall \/ UpdatePrune \/ UpdateScan \/ UpdateInsert \/ UpdateReturn
  \/ RegisterCall \/ RegisterFind \/ RegisterInsert
  \/ UnregisterWindow

WindowSpec == Init /\ [][WindowNext]_vars

\* --------------------------------------------------------- ProcessTracker
\* What get_parent_process_id(p) and get_process_info(p) return is up to the
\* operating system: <<>> (None) or <<v>> (Some(v)).  A walk sees one table;
\* a process may be its own parent and parents may form a cycle.
ParentTables == [Pids -> {<<>>} \cup {<<q>> : q \in Pids}]
InfoTables == [Pids -> {<<>>} \cup {<<n>> : n \in Names}]

\* info.name.contains(tp)
Contains(name, tp) ==
  \E k \in 0..(Len(name) - Len(tp)) : SubSeq(name, k + 1, k + Len(tp)) = tp

\* if let Some(info) = get_process_info(parent_pid) and
\* terminal_processes.iter().any(|&tp| info.name.contains(tp))
IsTerminalProcess(info) ==
  /\ info # <<>>
  /\ \E tp \in terminal_processes : Contains(info[1], tp)

\* Variant: the loop admits one iteration more.
WhileDepthAtMost(depth, max_depth) == depth <= max_depth

\* while depth < max_depth
WhileDepth(depth, max_depth) == depth < max_depth

\* find_terminal_ancestor(pid, max_depth) is called: current_pid = pid,
\* depth = 0.
ProcessInit ==
  /\ InitManager
  /\ InitTracker
  /\ \E pt \in ParentTables, it \in InfoTables, p \in Pids, d \in 0..MaxDepth :
       walk = [parent |-> pt, info |-> it, pid |-> p, max_depth |-> d,
               current_pid |-> p, depth |-> 0, lookups |-> 0,
               result |-> <<>>, pc |-> "loop"]

\* Lines 76-96: one iteration of the loop.  The parent lookup fails (break,
\* then None), or the parent is a terminal process (return Some(parent_pid)),
\* or the walk moves on to the parent.
WalkStep ==
  /\ walk.pc = "loop"
  /\ WhileDepth(walk.depth, walk.max_depth)
  /\ LET parent_pid == walk.parent[walk.current_pid]
         looked == [walk EXCEPT !.lookups = @ + 1]
     IN walk' =
          IF parent_pid = <<>>
            THEN [looked EXCEPT !.pc = "done", !.result = <<>>]
          ELSE IF IsTerminalProcess(walk.info[parent_pid[1]])
            THEN [looked EXCEPT !.pc = "done", !.result = parent_pid]
          ELSE [looked EXCEPT !.current_pid = parent_pid[1], !.depth = @ + 1]
  /\ UNCHANGED <<managerVars, trackerVars>>

\* Lines 76 and 101: depth reached max_depth, the loop ends and None is
\* returned.
WalkEnd ==
  /\ walk.pc = "loop"
  /\ ~WhileDepth(walk.depth, walk.max_depth)
  /\ walk' = [walk EXCEPT !.pc = "done", !.result = <<>>]
  /\ UNCHANGED <<managerVars, trackerVars>>

ProcessNext == WalkStep \/ WalkEnd

ProcessSpec == ProcessInit /\ [][ProcessNext]_vars

\* ================================================================= claims
LookupOps == {"write", "resize", "read"}
PtyIoPcs == {"w_io", "rs_io"}
LookupPcs == {"w_lock", "rs_lock", "rd_lock"}
Elems(q) == {q[k] : k \in 1..Len(q)}
NoDup(q) == \A j, k \in 1..Len(q) : j # k => q[j] # q[k]
\* What a manager operation other than create and kill of the id can change.
managerState == <<sessions, output, outLock, ptySize, ptyIn, ptyOut, produced,
                  child, reader, buf, appended, delivered>>

\* C1: a write, resize or read that starts after kill(id) completed, for an id
\* a create returned, fails with "session not found": it never succeeds and
\* never reports a spawn or I/O error.
C1_AfterKillNotFound ==
  (last.op \in LookupOps /\ last.afterKill) => last.ret.msg = NotFoundMsg

\* C1 witness: a write issued after the kill of a created session was answered
\* with not-found while the session's reader thread was still running.
C1_Witness ==
  /\ last.op = "write"
  /\ last.afterKill
  /\ last.id \in killed
  /\ last.ret.msg = NotFoundMsg
  /\ reader[last.id] \in {"reading", "appending"}

\* C2: kill returns Ok for every id; a kill of an id that is not registered
\* changes nothing (registry, buffers, PTYs, readers); after a kill the id is
\* not registered and the other entries are the ones that were there, so a
\* second kill of the same id leaves the registry the first one left.
C2_KillNeverFailsIdempotent ==
  [][\A c \in Callers :
       (pc[c] = "k_lock" /\ pc'[c] = "idle") =>
         /\ last'.op = "kill"
         /\ last'.ret = Ok(0, <<>>)
         /\ sessions' = sessions \ {arg[c].id}
         /\ arg[c].id \notin sessions => UNCHANGED managerState]_vars

\* C2 witness: a second kill of an already killed id returned Ok while another
\* session was registered.
C2_Witness ==
  /\ last.op = "kill"
  /\ last.afterKill
  /\ last.ret.msg = "ok"
  /\ last.id \notin sessions
  /\ sessions # {}

\* C3: write, resize and read with an id that is not a key of the registry
\* fail with "session not found" and change neither the registry nor any
\* buffer, PTY or reader.
C3_UnknownIdNotFound ==
  [][\A c \in Callers :
       (pc[c] \in LookupPcs /\ pc'[c] # pc[c] /\ arg[c].id \notin sessions) =>
         /\ pc'[c] = "idle"
         /\ last'.op = op[c]
         /\ last'.ret = Err(NotFoundMsg)
         /\ regLock' = regLock
         /\ UNCHANGED managerState]_vars

\* C3 witness: a resize with an id that names no session was answered with
\* not-found while a session was registered.
C3_Witness ==
  /\ last.op = "resize"
  /\ last.id = UnknownId
  /\ last.ret.msg = NotFoundMsg
  /\ sessions # {}

\* C4: an id a create returned stays a key of the registry until a kill of it
\* completes, and until then no write, resize or read of it fails with
\* "session not found", also after the child exited and the reader stopped.
C4_RegisteredUntilKill ==
  /\ \A i \in returned \ killed : i \in sessions
  /\ (last.op \in LookupOps /\ last.id \in returned \ killed) =>
       last.ret.msg # NotFoundMsg

\* C4 witness: a read of a registered session succeeded after its child had
\* exited and its reader thread had terminated.
C4_Witness ==
  /\ last.op = "read"
  /\ last.ret.msg = "ok"
  /\ last.id \in sessions
  /\ child[last.id] = "exited"
  /\ reader[last.id] = "done"

\* C5: a read of a registered session returns exactly the bytes that are in
\* the buffer when it takes the buffer lock and leaves the buffer empty; no
\* appended byte is returned twice and none is lost.
C5_AtomicDrain ==
  /\ [][\A c \in Callers :
          (pc[c] = "rd_lock_output" /\ pc'[c] = "idle") =>
            /\ last'.ret = Ok(0, output[arg[c].id])
            /\ output'[arg[c].id] = <<>>]_vars
  /\ [](\A i \in Ids :
          /\ NoDup(delivered[i] \o output[i])
          /\ Elems(delivered[i] \o output[i]) = Elems(appended[i]))

\* C5 witness: a read returned the first byte while the reader thread held the
\* buffer lock to append the second one.
C5_Witness ==
  /\ last.op = "read"
  /\ last.ret.data = <<1>>
  /\ output[last.id] = <<>>
  /\ reader[last.id] = "appending"
  /\ buf[last.id] = <<2>>

\* C6: for each session the results of the successful reads so far, in order,
\* followed by the buffer's contents are the bytes the reader thread appended,
\* which are a prefix of what the child produced, in production order.
C6_ReadsPreserveOrder ==
  \A i \in Ids :
    /\ delivered[i] \o output[i] = appended[i]
    /\ Len(appended[i]) <= Len(produced[i])
    /\ appended[i] = SubSeq(produced[i], 1, Len(appended[i]))

\* C6 witness: two reads of one session returned <<1>> and then <<2>>.
C6_Witness ==
  /\ last.op = "read"
  /\ last.ret.data = <<2>>
  /\ delivered[last.id] = <<1, 2>>

\* C7: a read of a registered session whose buffer is empty returns Ok with no
\* bytes and changes nothing, so any number of them in a row do.
C7_EmptyReadIdempotent ==
  [][\A c \in Callers :
       (pc[c] = "rd_lock_output" /\ pc'[c] = "idle" /\ output[arg[c].id] = <<>>) =>
         /\ last'.ret = Ok(0, <<>>)
         /\ regLock' = "free"
         /\ UNCHANGED managerState]_vars

\* C7 witness: a read of a registered session returned Ok and empty, and a
\* second read of the same session is under way.
C7_Witness ==
  /\ last.op = "read"
  /\ last.ret = Ok(0, <<>>)
  /\ last.id \in sessions
  /\ output[last.id] = <<>>
  /\ \E c \in Callers : pc[c] = "rd_lock_output" /\ arg[c].id = last.id

\* C8: a create that fails at one of its fallible steps (it returns an Err)
\* returns one of the spawn errors, leaves the registry as it was and has
\* started no reader thread.
C8_CreateFailureLeavesRegistry ==
  [][\A c \in Callers :
       (op[c] = "create" /\ pc[c] # "idle" /\ pc'[c] = "idle"
          /\ last'.ret.msg \notin {"ok", "panicked"}) =>
         /\ last'.ret.msg \in SpawnMsgs
         /\ UNCHANGED <<sessions, regLock, returned, nextId>>
         /\ UNCHANGED managerState]_vars

\* C8 witness: a create failed at take_writer while a session was registered.
C8_Witness ==
  /\ last.op = "create"
  /\ last.ret.msg = "take writer failed"
  /\ sessions # {}

\* C9: no caller is inside the PTY write/flush of write or the PTY resize of
\* resize while it holds the lock on the sessions map.
C9_NoRegistryLockAcrossPtyIo ==
  \A c \in Callers : pc[c] \in PtyIoPcs => regLock # c

\* C10: while a caller is inside the PTY call of write or resize on one
\* session, a caller that waits to start a write, resize or read on another
\* registered session can take its next step.
C10_DistinctSessionsDoNotBlock ==
  \A c1, c2 \in Callers :
    (/\ c1 # c2
     /\ pc[c1] \in PtyIoPcs
     /\ pc[c2] \in LookupPcs
     /\ arg[c2].id \in sessions
     /\ arg[c2].id # arg[c1].id)
    => ENABLED (WriteLookup(c2) \/ ResizeLookup(c2) \/ ReadLookup(c2))

\* C11: the reader thread holds the buffer lock exactly while it appends a
\* chunk of n > 0 bytes a read returned: never while it is in reader.read,
\* and never after it terminated.
C11_ReaderLockOnlyForAppend ==
  \A i \in Ids :
    /\ outLock[i] = "reader" <=> reader[i] = "appending"
    /\ reader[i] = "appending" => buf[i] # <<>>
    /\ reader[i] # "appending" => buf[i] = <<>>

\* C11 witness: after an append the reader thread is back in reader.read, with
\* nothing to read from a running child, and the buffer lock is free while a
\* caller is about to drain the buffer.
C11_Witness ==
  \E i \in Ids :
    /\ reader[i] = "reading"
    /\ appended[i] # <<>>
    /\ ptyOut[i] = <<>>
    /\ child[i] = "running"
    /\ outLock[i] = "free"
    /\ \E c \in Callers : pc[c] = "rd_lock_output" /\ arg[c].id = i

\* C12: every read of a registered session returns, whatever the child does
\* from then on: no step of the child is needed for it, and of the reader
\* thread at most the append it is in.
C12_ReadIsPurePoll ==
  \A c \in Callers :
    (pc[c] \in {"rd_lock", "rd_lock_output"} /\ arg[c].id \in sessions)
      ~> (pc[c] = "idle")

\* C13: every kill returns, also when the child neither exits nor reads its
\* input; and a caller that waits for a buffer lock waits only for the reader
\* thread's append.
C13_KillNeverWaits ==
  /\ \A c \in Callers : (pc[c] = "k_lock") ~> (pc[c] = "idle")
  /\ [](\A c \in Callers :
          (pc[c] = "rd_lock_output" /\ outLock[arg[c].id] # "free") =>
            reader[arg[c].id] = "appending")

\* C14: a session has one reader thread: it is started by the successful
\* create that generated the id, before the id is registered or returned; no
\* other step starts one; a started reader is never replaced; a reader that
\* terminated stays terminated and appends nothing more.
C14_OneReaderPerSession ==
  /\ [](\A i \in Ids : i \in sessions \cup returned => reader[i] # "none")
  /\ [][\A i \in Ids :
          /\ (reader[i] \in {"none", "done"} /\ reader'[i] # reader[i]) =>
                /\ reader[i] = "none"
                /\ reader'[i] = "reading"
                /\ i \notin sessions'
                /\ \E c \in Callers :
                     /\ pc[c] = "create"
                     /\ pc'[c] = "c_insert"
                     /\ arg'[c].id = i
          /\ reader[i] # "none" => reader'[i] # "none"
          /\ reader[i] = "done" => appended'[i] = appended[i]]_vars

\* C14 witness: the reader thread of a registered session appended output and
\* terminated, and a write to the session was served afterwards.
C14_Witness ==
  /\ last.op = "write"
  /\ last.ret.msg = "ok"
  /\ last.id \in sessions
  /\ reader[last.id] = "done"
  /\ appended[last.id] # <<>>

\* C15: the set of registered ids changes only by the insert of a successful
\* create, which adds the created id, and by kill, which removes the id it was
\* given; every other step (write, resize, read, their failures, failed
\* creates, child and reader steps) leaves it unchanged.
C15_RegistryChangesOnlyByCreateKill ==
  [][sessions' # sessions =>
       \E c \in Callers :
         \/ /\ pc[c] = "c_insert"
            /\ last'.op = "create"
            /\ last'.ret.msg = "ok"
            /\ sessions' = sessions \cup {last'.ret.id}
         \/ /\ pc[c] = "k_lock"
            /\ last'.op = "kill"
            /\ sessions' = sessions \ {arg[c].id}]_vars

\* C15 witness: a write failed with an I/O error on a session whose child had
\* exited and whose reader thread had terminated, and the session and another
\* one are still registered.
C15_Witness ==
  /\ last.op = "write"
  /\ last.ret.msg = "write failed"
  /\ child[last.id] = "exited"
  /\ reader[last.id] = "done"
  /\ last.id \in sessions
  /\ sessions = Ids

\* C16: while a write is inside write_all the PTY has received, after what it
\* held when the write found the session, exactly the bytes this write
\* delivered so far, in order and with no other write's bytes among them; a
\* write that returns Ok has delivered all of its bytes as one contiguous run,
\* and one that does not returns "write failed" or "flush failed".
C16_WriteAllOrIoError ==
  /\ [](\A c \in Callers :
          pc[c] = "w_io" =>
            ptyIn[arg[c].id] =
              SubSeq(ptyIn[arg[c].id], 1, arg[c].at)
                \o SubSeq(arg[c].data, 1, arg[c].sent))
  /\ [][\A c \in Callers :
          (pc[c] = "w_io" /\ pc'[c] = "idle") =>
            LET i == arg[c].id
                d == arg[c].data
                at == arg[c].at
            IN /\ last'.op = "write"
               /\ last'.ret.msg \in {"ok", "write failed", "flush failed"}
               /\ SubSeq(ptyIn'[i], 1, at) = SubSeq(ptyIn[i], 1, at)
               /\ last'.ret.msg = "ok" =>
                    ptyIn'[i] = SubSeq(ptyIn[i], 1, at) \o d
               /\ last'.ret.msg = "write failed" =>
                    /\ Len(ptyIn'[i]) < at + Len(d)
                    /\ ptyIn'[i] = SubSeq(ptyIn[i], 1, at)
                                      \o SubSeq(d, 1, Len(ptyIn'[i]) - at)]_vars

\* C16 witness: a write returned Ok after a write to the same session had
\* failed with one of its two bytes delivered.
C16_Witness ==
  /\ last.op = "write"
  /\ last.ret.msg = "ok"
  /\ ptyIn[last.id] = <<7, 7, 8>>

\* The kind of a manager result: success, or one of the three error kinds.
Kind(r) ==
  CASE r.msg = "ok" -> "Success"
    [] r.msg = NotFoundMsg -> "NotFound"
    [] r.msg \in IoMsgs -> "IoError"
    [] r.msg \in SpawnMsgs -> "SpawnError"
    [] OTHER -> "none"

\* C17: two responses that follow one another and carry results of different
\* kinds (success, not-found, I/O error, spawn error) have different
\* statuses.
C17_ErrorKindsDistinctStatus ==
  [][(/\ Kind(last.ret) # "none"
      /\ Kind(last'.ret) # "none"
      /\ Kind(last.ret) # Kind(last'.ret))
     => last.status # last'.status]_vars

\* C18: every call that ends, ends by returning a success value or an error
\* value of one of the three kinds (never by a panic), and it leaves the
\* registry lock free for later callers unless another call holds it.
C18_NoPanicOnExpectedFailure ==
  /\ last.op # "none" => Kind(last.ret) # "none"
  /\ regLock # "free" => pc[regLock] \in {"w_io", "rs_io", "rd_lock_output"}

\* C20: once a kill of a created session completed, the session's reader
\* thread eventually terminates, whatever the child does.
C20_ReaderTerminatesAfterKill ==
  \A i \in Ids : (i \in killed) ~> (reader[i] = "done")

\* C21: the step by which a reader thread stops changes neither the registry,
\* nor the buffer, nor any caller's call or response; a session whose reader
\* stopped stays registered until it is killed; a read of it that reaches the
\* buffer returns Ok with the bytes that are in the buffer and empties it;
\* and once the buffer is empty it stays empty, so later reads return Ok and
\* no bytes.
C21_ReadsAfterReaderStop ==
  /\ [](\A i \in returned \ killed : reader[i] = "done" => i \in sessions)
  /\ [][/\ \A i \in Ids :
            /\ (reader[i] # "done" /\ reader'[i] = "done") =>
                 UNCHANGED <<sessions, output, pc, op, last>>
            /\ (reader[i] = "done" /\ output[i] = <<>>) => output'[i] = <<>>
        /\ \A c \in Callers :
            (/\ pc[c] = "rd_lock_output"
             /\ pc'[c] = "idle"
             /\ reader[arg[c].id] = "done") =>
              /\ last'.ret = Ok(0, output[arg[c].id])
              /\ output'[arg[c].id] = <<>>
              /\ arg[c].id \in sessions']_vars

\* C21 witness: after the reader thread of a registered session stopped, a
\* read returned the byte that was left in the buffer, and a second read of
\* the session has found it and is about to drain the empty buffer.
C21_Witness ==
  /\ last.op = "read"
  /\ last.readerDone
  /\ last.ret = Ok(0, <<1>>)
  /\ last.id \in sessions
  /\ output[last.id] = <<>>
  /\ \E c \in Callers : pc[c] = "rd_lock_output" /\ arg[c].id = last.id

\* C22: a resize that returns Ok has set the PTY size of its session to the
\* cols and rows it was given, and one that fails with an I/O error has not
\* changed it; either way the step changes no other session's size, not the
\* registry, no buffer, nothing delivered to a writer, and no reader or child.
C22_ResizeFrame ==
  [][\A c \in Callers :
       (pc[c] = "rs_io" /\ pc'[c] = "idle") =>
         LET i == arg[c].id
         IN /\ last'.op = "resize"
            /\ last'.ret.msg \in {"ok", "resize failed"}
            /\ last'.ret.msg = "ok" => ptySize'[i] = arg[c].dims
            /\ last'.ret.msg # "ok" => ptySize'[i] = ptySize[i]
            /\ \A j \in Ids \ {i} : ptySize'[j] = ptySize[j]
            /\ i \in sessions'
            /\ UNCHANGED <<sessions, output, outLock, ptyIn, ptyOut, produced,
                           child, reader, buf>>]_vars

\* C22 witness: a resize of one of two registered sessions returned Ok; that
\* session has the new size, the other one the size it was created with.
C22_Witness ==
  /\ last.op = "resize"
  /\ last.ret.msg = "ok"
  /\ sessions = Ids
  /\ ptySize[last.id] = <<100, 43>>
  /\ \E j \in Ids \ {last.id} : ptySize[j] = <<132, 24>>

\* Positions at which a caller waits for, or is about to take, the registry
\* lock.
RegistryWaitPcs == {"c_insert", "w_lock", "rs_lock", "rd_lock", "k_lock"}

\* C23: no cycle of threads waiting for each other's locks.  A buffer lock is
\* held only by a reader thread in its append, which waits for nothing and can
\* complete; the registry lock is held only by a caller inside write, resize
\* or read, which waits for no lock or (in read) for a buffer lock, and then
\* either it or the reader holding that lock can step; a thread that waits
\* for the registry lock holds no lock.
C23_NoLockCycle ==
  /\ \A i \in Ids :
       /\ outLock[i] \in {"free", "reader"}
       /\ outLock[i] = "reader" =>
            reader[i] = "appending" /\ ENABLED ReaderAppend(i)
  /\ regLock # "free" =>
       /\ regLock \in Callers
       /\ pc[regLock] \in {"w_io", "rs_io", "rd_lock_output"}
       /\ pc[regLock] = "rd_lock_output" =>
            \/ ENABLED ReadDrain(regLock)
            \/ ENABLED ReaderAppend(arg[regLock].id)
  /\ \A c \in Callers : pc[c] \in RegistryWaitPcs => regLock # c

\* C23 witness: a kill waits for the registry lock, which a read holds while
\* it waits for the buffer lock, which the reader thread holds for its append.
C23_Witness ==
  \E c1, c2 \in Callers :
    /\ pc[c1] = "k_lock"
    /\ pc[c2] = "rd_lock_output"
    /\ regLock = c2
    /\ outLock[arg[c2].id] = "reader"
    /\ reader[arg[c2].id] = "appending"

RECURSIVE Ancestor(_, _, _)
Ancestor(pt, p, k) ==
  IF k = 0 THEN <<p>>
  ELSE LET below == Ancestor(pt, p, k - 1)
       IN IF below = <<>> THEN <<>> ELSE pt[below[1]]

\* The numbers of parent steps, up to max_depth, that lead from the walk's
\* pid to a terminal process.
TerminalDepths ==
  {k \in 1..walk.max_depth :
     LET a == Ancestor(walk.parent, walk.pid, k)
     IN a # <<>> /\ IsTerminalProcess(walk.info[a[1]])}

\* C25: the walk makes at most max_depth parent lookups, whatever the parent
\* relation; when it is over, it returned Some(p) exactly for the nearest
\* terminal process p among the ancestors 1..max_depth steps above pid, and
\* None if there is none or a parent lookup fails below the nearest one.
C25_FindTerminalAncestor ==
  /\ walk.pc # "none" =>
       /\ walk.lookups <= walk.max_depth
       /\ walk.depth <= walk.lookups
  /\ walk.pc = "done" =>
       IF TerminalDepths = {}
         THEN walk.result = <<>>
         ELSE LET k == CHOOSE n \in TerminalDepths :
                         \A m \in TerminalDepths : n <= m
              IN /\ walk.result = Ancestor(walk.parent, walk.pid, k)
                 /\ walk.lookups = k

\* C25 witness: in a table where 1 and 2 are each other's parent and neither
\* is a terminal, the walk from 1 with max_depth 3 ended with None after
\* three lookups.
C25_Witness ==
  /\ walk.pc = "done"
  /\ walk.pid = 1
  /\ walk.max_depth = 3
  /\ walk.parent[1] = <<2>>
  /\ walk.parent[2] = <<1>>
  /\ walk.result = <<>>
  /\ walk.lookups = 3

====
